---- MODULE Spec2Model ----
(***************************************************************************)
(* A model of pyx12.path.X12Path: the parse of an x12 path string into     *)
(* its fields, the lazily cached formatted string, the mutators and the    *)
(* comparisons.                                                            *)
(*                                                                         *)
(* A Python string is a sequence of one-character strings; an optional     *)
(* value (None or a value v) is the empty sequence or <<v>>.               *)
(***************************************************************************)
EXTENDS Integers, Sequences, FiniteSets, TLC

VARIABLES obj, st, ret, nmut

vars == <<obj, st, ret, nmut>>

(***************************************************************************)
(* Bounds of the model.                                                    *)
(***************************************************************************)
\* longest constructor argument of the parse specification
MaxLen == 4
\* most mutating calls made on one address
MaxMut == 2

(***************************************************************************)
(* Characters and strings.                                                 *)
(***************************************************************************)
Sep == "/"

Upper == {"A", "B", "C", "D", "E", "F", "G", "H", "I", "J", "K", "L", "M",
          "N", "O", "P", "Q", "R", "S", "T", "U", "V", "W", "X", "Y", "Z"}

Digits == <<"0", "1", "2", "3", "4", "5", "6", "7", "8", "9">>

Digit == {Digits[i] : i \in 1..10}

\* the characters the constructor's argument is drawn from
Alphabet == {"/", "A", "0", "1", "[", "]", "-", "\n"}

StrsUpTo(n) == UNION {[1..k -> Alphabet] : k \in 0..n}

None == <<>>

Some(v) == <<v>>

\* s[i:] and s[:-1] of Python, i counted from 0
DropFirst(s, i) == IF i >= Len(s) THEN <<>> ELSE SubSeq(s, i + 1, Len(s))

DropLast(s) == IF s = <<>> THEN <<>> ELSE SubSeq(s, 1, Len(s) - 1)

Last(s) == s[Len(s)]

\* str.startswith at offset i (0-based): sub occurs in s at i
OccursAt(s, sub, i) ==
    /\ i + Len(sub) <= Len(s)
    /\ \A k \in 1..Len(sub) : s[i + k] = sub[k]

\* str.find: the lowest 0-based index where sub occurs, -1 when it does not
find(s, sub) ==
    IF \E i \in 0..Len(s) : OccursAt(s, sub, i)
    THEN CHOOSE i \in 0..Len(s) :
             /\ OccursAt(s, sub, i)
             /\ \A j \in 0..(i - 1) : ~OccursAt(s, sub, j)
    ELSE -1

\* str.split('/'): always at least one token, empty tokens kept
RECURSIVE split(_)
split(s) ==
    LET i == find(s, <<Sep>>)
    IN  IF i = -1 THEN <<s>>
        ELSE <<SubSeq(s, 1, i)>> \o split(DropFirst(s, i + 1))

\* '/'.join(tuple)
RECURSIVE join(_)
join(t) ==
    IF t = <<>> THEN <<>>
    ELSE IF Len(t) = 1 THEN t[1]
    ELSE t[1] \o <<Sep>> \o join(Tail(t))

\* str.replace(old, ''): every non-overlapping occurrence of old (not empty),
\* left to right, is removed
RECURSIVE replace(_, _)
replace(s, old) ==
    IF s = <<>> THEN <<>>
    ELSE IF OccursAt(s, old, 0) THEN replace(DropFirst(s, Len(old)), old)
    ELSE <<Head(s)>> \o replace(Tail(s), old)

\* int(str) of a string of decimal digits
DigitVal(c) == (CHOOSE i \in 1..10 : Digits[i] = c) - 1

RECURSIVE int(_)
int(s) == IF s = <<>> THEN 0 ELSE 10 * int(DropLast(s)) + DigitVal(Last(s))

\* '%i' % n and '%02i' % n, n >= 0
RECURSIVE fmt_i(_)
fmt_i(n) == IF n < 10 THEN <<Digits[n + 1]>>
            ELSE fmt_i(n \div 10) \o <<Digits[(n % 10) + 1]>>

fmt_02i(n) == IF n < 10 THEN <<"0">> \o fmt_i(n) ELSE fmt_i(n)

(***************************************************************************)
(* RX_PATH: ^(seg_id)?(\[(id_val)\])?(ele_idx)?(-(subele_idx))?$           *)
(* A match is the record of its four groups, each None or a string.        *)
(***************************************************************************)
IsAlnum(c) == c \in Upper \/ c \in Digit

\* '$' without re.M: the end of the string, or just before a final newline.
\* p is the number of characters consumed so far.
AtDollar(s, p) == p = Len(s) \/ (p = Len(s) - 1 /\ s[Len(s)] = "\n")

\* the longest run of characters of class C that starts after p characters
RECURSIVE RunLen(_, _, _)
RunLen(s, p, C) ==
    IF p < Len(s) /\ s[p + 1] \in C THEN 1 + RunLen(s, p + 1, C) ELSE 0

IsDigit(c) == c \in Digit

Alnum == Upper \cup Digit

\* re_subele_idx then '$', after p characters
MatchSubele(s, p, g) ==
    IF p < Len(s) /\ s[p + 1] = "-" /\ RunLen(s, p + 1, Digit) > 0
       /\ AtDollar(s, p + 1 + RunLen(s, p + 1, Digit))
    THEN Some([g EXCEPT !.subele_idx =
                  Some(SubSeq(s, p + 2, p + 1 + RunLen(s, p + 1, Digit)))])
    ELSE IF AtDollar(s, p) THEN Some(g)
    ELSE None

\* re_ele_idx and what follows it
MatchEle(s, p, g) ==
    LET taken == IF p + 2 <= Len(s) /\ IsDigit(s[p + 1]) /\ IsDigit(s[p + 2])
               THEN MatchSubele(s, p + 2,
                                [g EXCEPT !.ele_idx = Some(SubSeq(s, p + 1, p + 2))])
               ELSE None
    IN  IF taken # None THEN taken ELSE MatchSubele(s, p, g)

\* re_id_val and what follows it
MatchIdVal(s, p, g) ==
    LET n    == RunLen(s, p + 1, Alnum)
        taken == IF p < Len(s) /\ s[p + 1] = "[" /\ n > 0
                   /\ p + 1 + n < Len(s) /\ s[p + 2 + n] = "]"
                THEN MatchEle(s, p + 2 + n,
                              [g EXCEPT !.id_val = Some(SubSeq(s, p + 2, p + 1 + n))])
                ELSE None
    IN  IF taken # None THEN taken ELSE MatchEle(s, p, g)

NoGroups == [seg_id |-> None, id_val |-> None, ele_idx |-> None, subele_idx |-> None]

\* re_seg_id, greedy: three characters, then two, then absent
MatchSegId(s, n) ==
    IF n <= Len(s) /\ s[1] \in Upper /\ \A k \in 2..n : IsAlnum(s[k])
    THEN MatchIdVal(s, n, [NoGroups EXCEPT !.seg_id = Some(SubSeq(s, 1, n))])
    ELSE None

\* RX_PATH.search(s): None, or Some(groups)
RX_PATH_search(s) ==
    IF MatchSegId(s, 3) # None THEN MatchSegId(s, 3)
    ELSE IF MatchSegId(s, 2) # None THEN MatchSegId(s, 2)
    ELSE MatchIdVal(s, 0, NoGroups)

(***************************************************************************)
(* The X12Path object: its attributes after __init__.  seg_str is the      *)
(* attribute _seg_str, which __init__ assigns only when RX_PATH matches:   *)
(* None here stands for the attribute being absent.                        *)
(***************************************************************************)
Blank(path_str) ==
    [seg_id     |-> None,
     id_val     |-> None,
     ele_idx    |-> None,
     subele_idx |-> None,
     relative   |-> TRUE,
     path_str   |-> path_str,
     dirty      |-> FALSE,
     loop_list  |-> <<>>,
     seg_str    |-> None]

\* the group as an integer, None when the group did not take part
IntGroup(grp) == IF grp = None THEN None ELSE Some(int(grp[1]))

\* InitRaises without the test of the remaining loops
InitRaises_NoLoopTest(self) ==
    \/ self.seg_id = None /\ self.id_val # None
    \/ /\ self.seg_id = None
       /\ self.ele_idx # None \/ self.subele_idx # None

\* InitRaises without the test of the qualifier
InitRaises_NoQualifierTest(self) ==
    /\ self.seg_id = None
    /\ self.ele_idx # None \/ self.subele_idx # None
    /\ Len(self.loop_list) > 0

\* the two raise statements of __init__, on the fields as just assigned
InitRaises(self) ==
    \/ self.seg_id = None /\ self.id_val # None
    \/ /\ self.seg_id = None
       /\ self.ele_idx # None \/ self.subele_idx # None
       /\ Len(self.loop_list) > 0

\* InitMatched that leaves the matched token in the loop list
InitMatched_KeepToken(self, seg_str, m) ==
    [self EXCEPT !.seg_str    = Some(seg_str),
                 !.seg_id     = m.seg_id,
                 !.id_val     = m.id_val,
                 !.ele_idx    = IntGroup(m.ele_idx),
                 !.subele_idx = IntGroup(m.subele_idx)]

\* the branch of __init__ taken when the last token matched, m the groups
InitMatched(self, seg_str, m) ==
    [self EXCEPT !.loop_list  = DropLast(self.loop_list),
                 !.seg_str    = Some(seg_str),
                 !.seg_id     = m.seg_id,
                 !.id_val     = m.id_val,
                 !.ele_idx    = IntGroup(m.ele_idx),
                 !.subele_idx = IntGroup(m.subele_idx)]

\* InitTail that, after a trailing '/', goes on to match the token before it
InitTail_MatchBeforeSep(self) ==
    LET s == IF Last(self.loop_list) = <<>>
             THEN [self EXCEPT !.path_str  = DropLast(self.path_str),
                               !.loop_list = DropLast(self.loop_list)]
             ELSE self
    IN  IF Len(s.loop_list) = 0 \/ RX_PATH_search(Last(s.loop_list)) = None
        THEN [exc |-> FALSE, self |-> s]
        ELSE [exc  |-> InitRaises(InitMatched(s, Last(s.loop_list),
                                              RX_PATH_search(Last(s.loop_list))[1])),
              self |-> InitMatched(s, Last(s.loop_list),
                                   RX_PATH_search(Last(s.loop_list))[1])]

\* __init__ from the first split on: self has relative and loop_list set
InitTail(self) ==
    IF Len(self.loop_list) = 0
    THEN [exc |-> FALSE, self |-> self]
    ELSE IF Last(self.loop_list) = <<>>
    THEN [exc  |-> FALSE,
          self |-> [self EXCEPT !.path_str  = DropLast(self.path_str),
                                !.loop_list = DropLast(self.loop_list)]]
    ELSE LET seg_str == Last(self.loop_list)
             m       == RX_PATH_search(seg_str)
         IN  IF m # None
             THEN [exc  |-> InitRaises(InitMatched(self, seg_str, m[1])),
                   self |-> InitMatched(self, seg_str, m[1])]
             ELSE [exc |-> FALSE, self |-> self]

\* X12Path(path_str): exc tells whether X12PathError was raised, self is the
\* object (as far as it was built when the error was raised)
X12Path(path_str) ==
    IF path_str = <<>>
    THEN [exc |-> FALSE, self |-> Blank(path_str)]
    ELSE IF path_str[1] = Sep
    THEN InitTail([Blank(path_str) EXCEPT
                       !.relative  = FALSE,
                       !.loop_list = split(DropFirst(path_str, 1))])
    ELSE InitTail([Blank(path_str) EXCEPT
                       !.relative  = TRUE,
                       !.loop_list = split(path_str)])

(***************************************************************************)
(* The methods, as functions from the object to the object they leave and  *)
(* the value they return.                                                  *)
(***************************************************************************)
\* the property setters
set_loop_list(self, value) == [self EXCEPT !.dirty = TRUE, !.loop_list = value]

set_seg_id(self, value) == [self EXCEPT !.dirty = TRUE, !.seg_id = value]

set_id_val(self, value) == [self EXCEPT !.dirty = TRUE, !.id_val = value]

set_ele_idx(self, value) == [self EXCEPT !.dirty = TRUE, !.ele_idx = value]

set_subele_idx(self, value) == [self EXCEPT !.dirty = TRUE, !.subele_idx = value]

set_relative(self, value) == [self EXCEPT !.dirty = TRUE, !.relative = value]

\* append that puts the new loops in front of the old ones
append_InFront(self, loop) ==
    [self EXCEPT !.loop_list = split(loop) \o self.loop_list, !.dirty = TRUE]

\* append that adds its argument as one loop, unsplit
append_NoSplit(self, loop) ==
    [self EXCEPT !.loop_list = self.loop_list \o <<loop>>, !.dirty = TRUE]

append(self, loop) ==
    [self EXCEPT !.loop_list = self.loop_list \o split(loop), !.dirty = TRUE]

\* truth value of an optional string (None and '' are false) and of an
\* optional integer (None and 0 are false)
TruthyStr(v) == v # None /\ v[1] # <<>>

TruthyInt(v) == v # None /\ v[1] # 0

\* empty without the test of the element index
empty_NoEleTest(self) ==
    /\ self.relative = TRUE
    /\ Len(self.loop_list) = 0
    /\ self.seg_id = None

empty(self) ==
    /\ self.relative = TRUE
    /\ Len(self.loop_list) = 0
    /\ self.seg_id = None
    /\ self.ele_idx = None

\* the string fm_refdes builds and stores in _seg_str
fm_refdes_str(self) ==
    (IF TruthyStr(self.seg_id)
     THEN self.seg_id[1] \o
          (IF TruthyStr(self.id_val) THEN <<"[">> \o self.id_val[1] \o <<"]">> ELSE <<>>)
     ELSE <<>>)
    \o
    (IF TruthyInt(self.ele_idx)
     THEN fmt_02i(self.ele_idx[1]) \o
          (IF TruthyInt(self.subele_idx) THEN <<"-">> \o fmt_i(self.subele_idx[1]) ELSE <<>>)
     ELSE <<>>)

\* the string fm_path builds
fm_path_str(self) ==
    LET ret0 == (IF ~self.relative THEN <<Sep>> ELSE <<>>) \o join(self.loop_list)
        ret1 == IF TruthyStr(self.seg_id) /\ ret0 # <<>> /\ ret0 # <<Sep>>
                THEN ret0 \o <<Sep>> ELSE ret0
    IN  ret1 \o fm_refdes_str(self)

\* fm_path that also clears a sub-element index it does not emit
fm_path_Normalises(self) ==
    [self EXCEPT !.seg_str    = Some(fm_refdes_str(self)),
                 !.path_str   = fm_path_str(self),
                 !.subele_idx = IF TruthyInt(self.ele_idx) THEN self.subele_idx ELSE None,
                 !.dirty      = FALSE]

fm_path(self) ==
    [self EXCEPT !.seg_str  = Some(fm_refdes_str(self)),
                 !.path_str = fm_path_str(self),
                 !.dirty    = FALSE]

\* format that rebuilds the string on every call
format_Always(self) == [self |-> fm_path(self), val |-> fm_path_str(self)]

\* format(): the object after the call and the string returned
format(self) ==
    LET s == IF self.dirty THEN fm_path(self) ELSE self
    IN  [self |-> s, val |-> s.path_str]

\* pop_loop that returns None and marks the cache stale when there is no loop
pop_loop_NoError(self) ==
    IF Len(self.loop_list) > 0
    THEN [exc  |-> FALSE,
          val  |-> self.loop_list[1],
          self |-> [self EXCEPT
                       !.loop_list = Tail(self.loop_list),
                       !.path_str  = replace(self.path_str,
                                             self.loop_list[1] \o <<Sep>>)]]
    ELSE [exc |-> FALSE, val |-> <<>>, self |-> [self EXCEPT !.dirty = TRUE]]

\* pop_loop(): with no loop to pop, the local `loop` is unbound when it is
\* read and the call ends in UnboundLocalError before any assignment
pop_loop(self) ==
    IF Len(self.loop_list) > 0
    THEN [exc  |-> FALSE,
          val  |-> self.loop_list[1],
          self |-> [self EXCEPT
                       !.loop_list = Tail(self.loop_list),
                       !.path_str  = replace(self.path_str,
                                             self.loop_list[1] \o <<Sep>>)]]
    ELSE [exc |-> TRUE, val |-> <<>>, self |-> self]

\* format_refdes(): reading _seg_str raises AttributeError while it is absent
format_refdes(self) ==
    LET s == IF self.dirty THEN fm_path(self) ELSE self
    IN  [self |-> s, exc |-> s.seg_str = None,
         val |-> IF s.seg_str = None THEN <<>> ELSE s.seg_str[1]]

\* is_child_path that wants a '/' where the root ends or right after it
is_child_path_Boundary(self, child_path) ==
    LET root_path == format(self).val
    IN  [self |-> format(self).self,
         val  |-> /\ Len(child_path) > Len(root_path)
                  /\ find(child_path, root_path) = 0
                  /\ \/ root_path = <<>>
                     \/ Last(root_path) = Sep
                     \/ child_path[Len(root_path) + 1] = Sep]

\* is_child_path with >= for >
is_child_path_NotStrict(self, child_path) ==
    LET root_path == format(self).val
    IN  [self |-> format(self).self,
         val  |-> Len(child_path) >= Len(root_path) /\ find(child_path, root_path) = 0]

\* is_child_path(child_path)
is_child_path(self, child_path) ==
    LET root_path == format(self).val
    IN  [self |-> format(self).self,
         val  |-> Len(child_path) > Len(root_path) /\ find(child_path, root_path) = 0]

\* __eq__ for two X12Path objects
eq(self, other) ==
    /\ self.loop_list = other.loop_list
    /\ self.seg_id = other.seg_id
    /\ self.id_val = other.id_val
    /\ self.ele_idx = other.ele_idx
    /\ self.subele_idx = other.subele_idx
    /\ self.relative = other.relative

\* str.__hash__: a function of the characters of the string alone.  The value
\* is represented by the string hashed: two hashes are equal when the strings
\* are, and the strings of the model are taken not to collide.
str_hash(s) == s

\* __hash__(): hashes __repr__(), which is format()
hash(self) == [self |-> format(self).self, val |-> str_hash(format(self).val)]

(***************************************************************************)
(* The state: one X12Path object `obj`; `st` tells whether its constructor *)
(* returned ("live") or raised ("failed"); `ret` is the last call made,    *)
(* its argument, the value returned and the exception raised ("" for       *)
(* none); `nmut` counts the mutating calls made so far.                    *)
(***************************************************************************)
Call(op, arg, val, exc) == [op |-> op, arg |-> arg, val |-> val, exc |-> exc]

\* constructor arguments of the mutation specification: one or more for
\* each way __init__ can go
Inputs ==
    { <<>>,
      <<"/">>,
      <<"A">>,
      <<"A", "/">>,
      <<"/", "A">>,
      <<"/", "/">>,
      <<"A", "A">>,
      <<"/", "A", "/", "A", "A">>,
      <<"A", "/", "A", "A", "/", "A">>,
      <<"1", "1">>,
      <<"0", "0">>,
      <<"-", "1">>,
      <<"1", "1", "\n">>,
      <<"A", "/", "A", "A", "[", "A", "]", "0", "1", "-", "0", "1">>,
      <<"[", "A", "]">>,
      <<"A", "/", "1", "1">> }

\* the values the setters are called with
SegIdVals == {None, Some(<<"A", "A">>)}

IdValVals == {None, Some(<<"A">>)}

EleIdxVals == {None, Some(0), Some(1)}

SubeleIdxVals == {None, Some(1)}

LoopListVals == {<<>>, << <<"A">> >>, << <<"A", "/", "A">> >>}

\* the arguments of append and of is_child_path, and the constructor
\* arguments of the object an address is compared with
AppendVals == {<<"A">>, <<"A", "A">>, <<"A", "/", "1">>}

ChildVals ==
    {<<>>, <<"/">>, <<"A">>, <<"/", "A">>, <<"A", "/", "A">>,
     <<"/", "A", "A", "A", "A">>}

OtherVals == {<<>>, <<"/">>, <<"A">>, <<"1", "1">>, <<"A", "/", "A", "A">>}

InitOn(S) ==
    \E s \in S :
        /\ obj = X12Path(s).self
        /\ st = IF X12Path(s).exc THEN "failed" ELSE "live"
        /\ ret = Call("__init__", s, <<>>, IF X12Path(s).exc THEN "X12PathError" ELSE "")
        /\ nmut = 0

Init == InitOn(Inputs)

InitParse == InitOn(StrsUpTo(MaxLen))

CanMutate == st = "live" /\ nmut < MaxMut

Mutate(self, op, arg) ==
    /\ CanMutate
    /\ obj' = self
    /\ ret' = Call(op, arg, <<>>, "")
    /\ nmut' = nmut + 1
    /\ UNCHANGED st

SetLoopList == \E v \in LoopListVals : Mutate(set_loop_list(obj, v), "loop_list", v)

SetSegId == \E v \in SegIdVals : Mutate(set_seg_id(obj, v), "seg_id", v)

SetIdVal == \E v \in IdValVals : Mutate(set_id_val(obj, v), "id_val", v)

SetEleIdx == \E v \in EleIdxVals : Mutate(set_ele_idx(obj, v), "ele_idx", v)

SetSubeleIdx == \E v \in SubeleIdxVals : Mutate(set_subele_idx(obj, v), "subele_idx", v)

SetRelative == \E v \in BOOLEAN : Mutate(set_relative(obj, v), "relative", v)

AppendLoop == \E v \in AppendVals : Mutate(append(obj, v), "append", v)

PopLoop ==
    /\ CanMutate
    /\ obj' = pop_loop(obj).self
    /\ ret' = Call("pop_loop", <<>>, pop_loop(obj).val,
                   IF pop_loop(obj).exc THEN "UnboundLocalError" ELSE "")
    /\ nmut' = IF pop_loop(obj).exc THEN nmut ELSE nmut + 1
    /\ UNCHANGED st

Read(self, op, arg, val, exc) ==
    /\ st = "live"
    /\ obj' = self
    /\ ret' = Call(op, arg, val, exc)
    /\ UNCHANGED <<st, nmut>>

Format == Read(format(obj).self, "format", <<>>, format(obj).val, "")

FormatRefdes ==
    Read(format_refdes(obj).self, "format_refdes", <<>>, format_refdes(obj).val,
         IF format_refdes(obj).exc THEN "AttributeError" ELSE "")

Empty == Read(obj, "empty", <<>>, empty(obj), "")

IsChildPath ==
    \E c \in ChildVals :
        Read(is_child_path(obj, c).self, "is_child_path", c, is_child_path(obj, c).val, "")

Eq ==
    \E s \in OtherVals :
        /\ ~X12Path(s).exc
        /\ Read(obj, "__eq__", s, eq(obj, X12Path(s).self), "")

Hash == Read(hash(obj).self, "__hash__", <<>>, hash(obj).val, "")

Next ==
    \/ SetLoopList
    \/ SetSegId
    \/ SetIdVal
    \/ SetEleIdx
    \/ SetSubeleIdx
    \/ SetRelative
    \/ AppendLoop
    \/ PopLoop
    \/ Format
    \/ FormatRefdes
    \/ Empty
    \/ IsChildPath
    \/ Eq
    \/ Hash

Spec == Init /\ [][Next]_vars

NextParse ==
    \/ Format
    \/ FormatRefdes
    \/ Empty
    \/ Hash

SpecParse == InitParse /\ [][NextParse]_vars

(***************************************************************************)
(* Properties.                                                             *)
(***************************************************************************)
Live == st = "live"

Fresh == st = "live" /\ ret.op = "__init__"

\* the six fields __eq__ compares
Fields(self) ==
    <<self.loop_list, self.seg_id, self.id_val, self.ele_idx, self.subele_idx,
      self.relative>>

\* the cached string is the one fm_path builds from the fields as they are
Coherent(self) == format(self).val = fm_path_str(self)

IsPrefix(r, c) == Len(r) <= Len(c) /\ SubSeq(c, 1, Len(r)) = r

EndsWithSep(s) == s # <<>> /\ Last(s) = Sep

NoSep(loops) == \A i \in 1..Len(loops) : \A k \in 1..Len(loops[i]) : loops[i][k] # Sep

\* A step is told by the call it records: every call sets ret.op to its own
\* name.
SetterOps == {"loop_list", "seg_id", "id_val", "ele_idx", "subele_idx", "relative"}

\* the reads that rebuild the cached string when it is stale
RecomputingOps == {"format", "format_refdes", "is_child_path", "__hash__"}

ReadOps == RecomputingOps \cup {"empty", "__eq__"}

\* a step that calls a setter or append
MutatorStep == ret'.op \in SetterOps \cup {"append"} /\ nmut' = nmut + 1

\* a pop_loop that pops
PopStep == ret'.op = "pop_loop" /\ ret'.exc = "" /\ nmut' = nmut + 1

\* C1: in every state of a constructed address, whatever setters, append and
\* pop_loop were called, format() returns the string fm_path builds from the
\* current fields; the freshly constructed address included.
C1_CacheCoherent == Live => Coherent(obj)

\* C2: an address whose six fields equal those of another address (here any
\* freshly constructed one) is == to it and has the same hash.
C2_EqHashConsistent ==
    Live =>
        \A s \in Inputs \cup OtherVals :
            (~X12Path(s).exc /\ Fields(obj) = Fields(X12Path(s).self))
                => /\ eq(obj, X12Path(s).self)
                   /\ hash(obj).val = hash(X12Path(s).self).val

\* C3: a pop_loop on a non-empty loop list (taken here from a state whose
\* cached string agrees with the fields) returns the first loop, leaves the
\* other loops in order and every other field unchanged, and the next format()
\* is the string of the remaining loops and fields, the cache fresh or stale.
C3_PopLoop ==
    [][(PopStep /\ Coherent(obj)) =>
          /\ ret'.val = Head(obj.loop_list)
          /\ obj'.loop_list = Tail(obj.loop_list)
          /\ Fields(obj') = Fields([obj EXCEPT !.loop_list = Tail(obj.loop_list)])
          /\ Coherent(obj')]_vars

\* C4: after each setter, append and pop_loop the cache is marked stale, and it
\* stays stale until a read that rebuilds the string.
C4_MutationInvalidates ==
    [][/\ (MutatorStep \/ PopStep) => obj'.dirty
       /\ (Live /\ obj.dirty /\ ret'.op \notin RecomputingOps) => obj'.dirty]_vars

\* C5: for a constructor argument that does not end in '/' and is accepted,
\* constructing again from the string format() returns succeeds and gives an
\* address == to the first.
C5_RoundTrip ==
    (Fresh /\ ~EndsWithSep(ret.arg))
        => /\ ~X12Path(format(obj).val).exc
           /\ eq(X12Path(format(obj).val).self, obj)

\* C5 witness: an accepted argument with a segment id and element index 00
C5_Witness ==
    /\ Fresh
    /\ ~EndsWithSep(ret.arg)
    /\ obj.seg_id # None
    /\ obj.ele_idx = Some(0)

\* the tokens of a constructor argument, as __init__ splits it
Tokens(s) == IF s # <<>> /\ s[1] = Sep THEN split(DropFirst(s, 1)) ELSE split(s)

\* the last token matches RX_PATH and (a) has a qualifier and no segment id, or
\* (b) has an element or sub-element index, no segment id, and a loop before it
RaiseCase(s) ==
    LET m == RX_PATH_search(Last(Tokens(s)))
    IN  /\ m # None
        /\ m[1].seg_id = None
        /\ \/ m[1].id_val # None
           \/ /\ m[1].ele_idx # None \/ m[1].subele_idx # None
              /\ Len(Tokens(s)) > 1

DataInv(self) ==
    /\ self.id_val # None => self.seg_id # None
    /\ ~(/\ self.ele_idx # None \/ self.subele_idx # None
         /\ self.seg_id = None
         /\ Len(self.loop_list) > 0)

\* C7 as claimed: the data-model invariants hold in every state of a
\* constructed address, after any setters, append and pop_loop.
C7_Original == Live => DataInv(obj)

\* C7 amended: the invariants hold right after a successful construction and
\* are kept by pop_loop, by the relative setter and by the reads; the other
\* setters and append do not check them.
C7_Amended ==
    /\ [](Fresh => DataInv(obj))
    /\ [][(Live /\ DataInv(obj) /\ ret'.op \in ReadOps \cup {"pop_loop", "relative"})
             => DataInv(obj')]_vars

\* C7 witness: a qualified segment under a loop, the loop popped and nothing
\* else changed
C7_Witness ==
    /\ Live
    /\ nmut = 1
    /\ ret.op = "pop_loop"
    /\ ret.exc = ""
    /\ obj.id_val # None
    /\ obj.seg_id # None

\* C8 as claimed: no loop of a constructed address contains '/', after any
\* append, pop_loop and loop_list assignments.
C8_Original == Live => NoSep(obj.loop_list)

\* C8 amended: no loop contains '/' right after construction, and every call
\* keeps it so except a loop_list assignment of a tuple that has an element
\* with '/' in it.
C8_Amended ==
    /\ [](Fresh => NoSep(obj.loop_list))
    /\ [][(Live /\ NoSep(obj.loop_list) /\ ~(ret'.op = "loop_list" /\ ~NoSep(ret'.arg)))
             => NoSep(obj'.loop_list)]_vars

\* C8 witness: an append of a suffix with '/' in it, the loops without
C8_Witness ==
    /\ Live
    /\ ret.op = "append"
    /\ \E k \in 1..Len(ret.arg) : ret.arg[k] = Sep
    /\ NoSep(obj.loop_list)

\* C9 as claimed: empty() is true exactly when the address is relative, has no
\* loops and no segment id, whatever the element index.
C9_Original ==
    (Live /\ ret.op = "empty")
        => (ret.val <=> (obj.relative = TRUE /\ obj.loop_list = <<>> /\ obj.seg_id = None))

\* C9 amended: empty() is true exactly when the address is relative, has no
\* loops, no segment id and no element index; the qualifier and the sub-element
\* index do not change it, and the address constructed from '' is empty.
C9_Amended ==
    /\ (Live /\ ret.op = "empty")
           => (ret.val <=> /\ obj.relative = TRUE
                           /\ obj.loop_list = <<>>
                           /\ obj.seg_id = None
                           /\ obj.ele_idx = None)
    /\ Live => /\ \A v \in IdValVals : empty(set_id_val(obj, v)) = empty(obj)
               /\ \A v \in SubeleIdxVals : empty(set_subele_idx(obj, v)) = empty(obj)
    /\ (Fresh /\ ret.arg = <<>>) => empty(obj)

\* C9 witness: empty() answered false for a relative address with no loops and
\* no segment id, only an element index
C9_Witness ==
    /\ Live
    /\ ret.op = "empty"
    /\ ret.val = FALSE
    /\ obj.relative = TRUE
    /\ obj.loop_list = <<>>
    /\ obj.seg_id = None
    /\ obj.ele_idx # None

\* C10: is_child_path(C) is true exactly when C is longer than the string R
\* that format() returns and starts with R; no address is a child of its own
\* string, and two addresses are never children of each other.
C10_IsChildPath ==
    /\ (Live /\ ret.op = "is_child_path")
           => (ret.val <=> (Len(ret.arg) > Len(format(obj).val)
                            /\ IsPrefix(format(obj).val, ret.arg)))
    /\ Live => ~is_child_path(obj, format(obj).val).val
    /\ Live => \A s \in OtherVals :
                   ~X12Path(s).exc
                       => ~(/\ is_child_path(obj, format(X12Path(s).self).val).val
                            /\ is_child_path(X12Path(s).self, format(obj).val).val)

\* C10 witness: is_child_path answered true for an address with a loop
C10_Witness ==
    /\ Live
    /\ ret.op = "is_child_path"
    /\ ret.val = TRUE
    /\ obj.loop_list # <<>>


\* C11: format_refdes() raises nothing and returns the reference designator
\* fm_refdes builds from the current fields, in every state of a constructed
\* address: fresh from any accepted argument, or after any mutations.
C11_FormatRefdes ==
    (Live /\ ret.op = "format_refdes")
        => /\ ret.exc = ""
           /\ ret.val = fm_refdes_str(obj)

\* the reference designator as the claim C12 words it: the segment id, the
\* qualifier in brackets, the element index on two digits and '-' with the
\* sub-element index, each one whenever it is set
RefdesWhenSet(self) ==
    (IF self.seg_id # None THEN self.seg_id[1] ELSE <<>>)
    \o (IF self.id_val # None THEN <<"[">> \o self.id_val[1] \o <<"]">> ELSE <<>>)
    \o (IF self.ele_idx # None THEN fmt_02i(self.ele_idx[1]) ELSE <<>>)
    \o (IF self.subele_idx # None THEN <<"-">> \o fmt_i(self.subele_idx[1]) ELSE <<>>)

\* C12: the reference designator rebuilt from the fields (of an address that
\* meets the data-model invariants) holds the element index whenever it is set
\* (0 included), the sub-element index whenever it is set, whether or not the
\* element index or the segment id is, and the qualifier whenever it is set.
C12_RefdesEmitsSetFields ==
    (Live /\ DataInv(obj)) => fm_refdes_str(obj) = RefdesWhenSet(obj)


\* the decimal digits of a capture without its leading zeros (one digit kept)
RECURSIVE StripZeros(_)
StripZeros(s) == IF Len(s) > 1 /\ s[1] = "0" THEN StripZeros(Tail(s)) ELSE s

\* the integer v is what the capture (None or a digit string) denotes
Denotes(v, capture) ==
    IF capture = None THEN v = None
    ELSE v # None /\ v[1] >= 0 /\ fmt_i(v[1]) = StripZeros(capture[1])

TokensBeforeFinalSep(s) == IF s = <<Sep>> THEN <<>> ELSE Tokens(DropLast(s))

\* C14: an argument that ends in '/' is accepted; the segment id, the qualifier
\* and the two indices are unset, the loops are all the tokens before the final
\* '/', the last one included even when it matches RX_PATH, and relative is
\* false exactly when the argument begins with '/'.
C14_TrailingSep ==
    (ret.op = "__init__" /\ EndsWithSep(ret.arg))
        => /\ st = "live"
           /\ obj.seg_id = None
           /\ obj.id_val = None
           /\ obj.ele_idx = None
           /\ obj.subele_idx = None
           /\ obj.loop_list = TokensBeforeFinalSep(ret.arg)
           /\ obj.relative = (ret.arg[1] # Sep)

\* C14 witness: an argument ending in '/' whose last token matches RX_PATH
C14_Witness ==
    /\ Fresh
    /\ EndsWithSep(ret.arg)
    /\ Len(obj.loop_list) = 2
    /\ Last(obj.loop_list) # <<>>
    /\ RX_PATH_search(Last(obj.loop_list)) # None


\* C15: is_child_path is a test of text alone: a longer string that starts with
\* the formatted address is a child whatever character follows the prefix, so
\* an address can be the parent of one whose loops do not extend its own.
C15_PrefixOnly ==
    (Live /\ ret.op = "is_child_path"
          /\ Len(ret.arg) > Len(format(obj).val)
          /\ \A k \in 1..Len(format(obj).val) : ret.arg[k] = format(obj).val[k])
        => ret.val = TRUE

\* C15 witness: is_child_path answered true for the string of an address whose
\* loops do not begin with the loops of this one ('/A' and '/AAAA')
C15_Witness ==
    /\ Live
    /\ ret.op = "is_child_path"
    /\ ret.val = TRUE
    /\ obj.loop_list # <<>>
    /\ \A i \in 1..Len(obj.loop_list) : obj.loop_list[i] # <<>>
    /\ ~X12Path(ret.arg).exc
    /\ format(X12Path(ret.arg).self).val = ret.arg
    /\ ~IsPrefix(obj.loop_list, X12Path(ret.arg).self.loop_list)


\* the loops a step added behind the ones there were
Added == SubSeq(obj'.loop_list, Len(obj.loop_list) + 1, Len(obj'.loop_list))

\* C16: append(suffix) leaves the loops there were, followed in order by the
\* tokens of suffix split on '/', leaves the segment id, the qualifier, the two
\* indices and relative as they were, and the next format() is the string of
\* the fields with the longer loop list.
C16_Append ==
    [][(ret'.op = "append" /\ nmut' = nmut + 1) =>
          /\ Len(obj'.loop_list) > Len(obj.loop_list)
          /\ SubSeq(obj'.loop_list, 1, Len(obj.loop_list)) = obj.loop_list
          /\ NoSep(Added)
          /\ join(Added) = ret'.arg
          /\ Fields(obj') = Fields([obj EXCEPT !.loop_list = obj'.loop_list])
          /\ format(obj').val = fm_path_str([obj EXCEPT !.loop_list = obj'.loop_list])]_vars

\* C16 witness: a suffix of two tokens appended to an address that has a loop
\* and a segment id
C16_Witness ==
    /\ Live
    /\ ret.op = "append"
    /\ \E k \in 1..Len(ret.arg) : ret.arg[k] = Sep
    /\ Len(obj.loop_list) >= 3
    /\ obj.seg_id # None

\* the addresses the strings of OtherVals construct
OtherAddresses == {X12Path(s).self : s \in {v \in OtherVals : ~X12Path(v).exc}}

\* C17: format(), format_refdes(), is_child_path(), empty(), hashing and ==
\* leave the six fields as they were, so the answer of == against any other
\* address is the same before and after a read.
C17_ReadsKeepFields ==
    [][(Live /\ ret'.op \in ReadOps) =>
          /\ Fields(obj') = Fields(obj)
          /\ \A other \in OtherAddresses \cup {obj, obj'} :
                 /\ eq(obj', other) = eq(obj, other)
                 /\ eq(other, obj') = eq(other, obj)]_vars

\* C17 witness: a read has rebuilt the cached string of an address that has
\* a sub-element index and no element index
C17_Witness ==
    /\ Live
    /\ ret.op \in RecomputingOps
    /\ nmut > 0
    /\ ~obj.dirty
    /\ obj.seg_str = Some(fm_refdes_str(obj))
    /\ obj.subele_idx # None
    /\ obj.ele_idx = None

\* C18: pop_loop on an address with no loops ends in an error and leaves the
\* loops, the other fields, the cached string and the stale mark as they were.
C18_PopEmpty ==
    [][(Live /\ ret'.op = "pop_loop" /\ Len(obj.loop_list) = 0) =>
          /\ ret'.exc = "UnboundLocalError"
          /\ obj' = obj]_vars

\* C18 witness: pop_loop has failed on an address whose cache is stale
C18_Witness ==
    /\ Live
    /\ ret.op = "pop_loop"
    /\ ret.exc = "UnboundLocalError"
    /\ obj.dirty
    /\ obj.loop_list = <<>>

====
